---- MODULE Spec2Model ----
(***************************************************************************)
(* The relational content and membership store declared by                 *)
(* prisma/schema.prisma (PostgreSQL datasource).  Every table of the        *)
(* schema is a set of rows; a row keeps its identity, its foreign keys and  *)
(* the columns that carry a constraint, a default or an index.  Free-text   *)
(* payload columns (title, content, passwordHash, timestamps ...) carry no  *)
(* constraint and are left out.  The index on Article (isPublished,         *)
(* publishedAt) is kept as the set of its entries, one per row, maintained  *)
(* by the statement that writes the row.                                    *)
(*                                                                         *)
(* Each store operation is one SQL statement and therefore one atomic       *)
(* step.  Its outcome is kept in "last": the operation, its typed result,   *)
(* and the number of dependent rows it removed or nulled.                  *)
(***************************************************************************)
EXTENDS Naturals, FiniteSets, Sequences

VARIABLES users, sessions, evTokens, prTokens, articles, categories, tags,
          articleTags, savedArticles, comments, newsletters, events, rsvps,
          memberships, articleIndex, last, hpc, hreq, hres, txMode

tables == <<users, sessions, evTokens, prTokens, articles, categories, tags,
            articleTags, savedArticles, comments, newsletters, events, rsvps,
            memberships, articleIndex>>
store == tables
hvars == <<hpc, hreq, hres, txMode>>
vars == <<store, last, hvars>>

\* ---- bounds of the model ----
\* number of rows the store holds at most
MaxRows == 5
\* number of rows a table without a unique column (Comment, Event) holds at most
MaxPlainRows == 2
\* publish timestamps range over 1..MaxTime
MaxTime == 2

\* ---- values ----
\* a nullable id / number / timestamp column that holds NULL
Null == 0
\* a nullable string column that holds NULL
NullStr == "null"

Emails == {"a@x", "b@x"}
Usernames == {"ann"}
Names == {"Tech", "Life"}
Slugs == {"tech", "life"}
Tokens == {"t1", "t2"}
StripeIds == {"cus1"}
SessionIds == {"s1", "s2"}
Times == 1..MaxTime
Capacities == {1}

RsvpStatus == {"CONFIRMED", "WAITLISTED", "CANCELLED"}
RsvpStatusDefault == "CONFIRMED"
IsPublishedDefault == FALSE

OK == "ok"
UniqueConstraintViolation == "UniqueConstraintViolation"
ForeignKeyViolation == "ForeignKeyViolation"
NotFound == "NotFound"

\* ---- lookups ----
UserIds == {u.id : u \in users}
ArticleIds == {a.id : a \in articles}
CategoryIds == {c.id : c \in categories}
TagIds == {t.id : t \in tags}
EventIds == {e.id : e \in events}

\* ---- generated ids ----
\* A cuid is an opaque string no other row has.  The model numbers the rows of
\* a table: a new row takes the smallest number that no row of the table has
\* and that no token row names (an id that appears nowhere in the store is as
\* good as one never used).
SmallestFree(used) ==
    CHOOSE i \in 1..(Cardinality(used) + 1) :
        i \notin used /\ \A j \in 1..(i - 1) : j \in used
TableIds(table) == {r.id : r \in table}
NewUserId ==
    SmallestFree(UserIds \cup {t.userId : t \in evTokens} \cup {t.userId : t \in prTokens})
NewArticleId == SmallestFree(ArticleIds)
NewCategoryId == SmallestFree(CategoryIds)
NewTagId == SmallestFree(TagIds)
NewEventId == SmallestFree(EventIds)
NewEvTokenId == SmallestFree(TableIds(evTokens))
NewPrTokenId == SmallestFree(TableIds(prTokens))
NewCommentId == SmallestFree(TableIds(comments))
NewNewsletterId == SmallestFree(TableIds(newsletters))
NewRsvpId == SmallestFree(TableIds(rsvps))
NewMembershipId == SmallestFree(TableIds(memberships))

\* the number of rows in the store
Rows ==
    Cardinality(users) + Cardinality(sessions) + Cardinality(evTokens)
    + Cardinality(prTokens) + Cardinality(articles) + Cardinality(categories)
    + Cardinality(tags) + Cardinality(articleTags) + Cardinality(savedArticles)
    + Cardinality(comments) + Cardinality(newsletters) + Cardinality(events)
    + Cardinality(rsvps) + Cardinality(memberships)


\* rows of a table that reference a given parent row
SessionsOf(u) == {s \in sessions : s.userId = u}
SavedOfUser(u) == {s \in savedArticles : s.userId = u}
CommentsOfUser(u) == {c \in comments : c.userId = u}
RsvpsOfUser(u) == {r \in rsvps : r.userId = u}
MembershipsOf(u) == {m \in memberships : m.userId = u}
NewslettersOf(u) == {n \in newsletters : n.userId = u}
ArticlesOfAuthor(u) == {a \in articles : a.authorId = u}
ArticlesOfCategory(c) == {a \in articles : a.categoryId = c}
TagsOfArticle(a) == {t \in articleTags : t.articleId = a}
SavedOfArticle(a) == {s \in savedArticles : s.articleId = a}
CommentsOfArticle(a) == {c \in comments : c.articleId = a}
ArticleTagsOfTag(t) == {x \in articleTags : x.tagId = t}
RsvpsOfEvent(e) == {r \in rsvps : r.eventId = e}

Outcome(op, res, n) == [op |-> op, res |-> res, n |-> n]


\* ---- Create ----
\* The unique index is checked when the row is inserted, the foreign keys when
\* the statement ends: a row that breaks both is reported as a unique violation.
CreateResult(uniqueClash, fkMissing) ==
    IF uniqueClash THEN UniqueConstraintViolation
    ELSE IF fkMissing THEN ForeignKeyViolation
    ELSE OK

\* an optional column left out of the request takes the column's default
Given(v, default) == IF v = <<>> THEN default ELSE v[1]

\* the store has room for the row a successful insert adds
HasSpace(res) == res = OK => Rows < MaxRows
HasPlainSpace(res, table) == res = OK => Cardinality(table) < MaxPlainRows

\* faulty variant: no unique index on username
UserClashEmailOnly(email, username) == \E u \in users : u.email = email
UserClash(email, username) ==
    \E u \in users : \/ u.email = email
                     \/ (username # NullStr /\ u.username = username)
CreateUserOp(email, username) ==
    LET res == CreateResult(UserClash(email, username), FALSE) IN
    /\ HasSpace(res)
    /\ users' = IF res = OK
                THEN users \cup {[id |-> NewUserId, email |-> email, username |-> username]}
                ELSE users
    /\ last' = Outcome("CreateUser", res, 0)
    /\ UNCHANGED <<sessions, evTokens, prTokens, articles, articleIndex, categories, tags, articleTags, savedArticles, comments, newsletters, events, rsvps, memberships>>

SessionClash(id) == \E s \in sessions : s.id = id
CreateSessionOp(id, userId) ==
    LET res == CreateResult(SessionClash(id), userId \notin UserIds) IN
    /\ sessions' = IF res = OK
                   THEN sessions \cup {[id |-> id, userId |-> userId]}
                   ELSE sessions
    /\ last' = Outcome("CreateSession", res, 0)
    /\ HasSpace(res)
    /\ UNCHANGED <<users, evTokens, prTokens, articles, articleIndex, categories, tags, articleTags, savedArticles, comments, newsletters, events, rsvps, memberships>>

\* userId is a plain column of the token tables: no relation, no foreign key
EvTokenClash(token) == \E t \in evTokens : t.token = token
CreateEmailVerificationTokenOp(token, email, userId) ==
    LET res == CreateResult(EvTokenClash(token), FALSE) IN
    /\ HasSpace(res)
    /\ evTokens' = IF res = OK
                   THEN evTokens \cup {[id |-> NewEvTokenId, token |-> token,
                                        email |-> email, userId |-> userId]}
                   ELSE evTokens
    /\ last' = Outcome("CreateEmailVerificationToken", res, 0)
    /\ UNCHANGED <<users, sessions, prTokens, articles, articleIndex, categories, tags, articleTags, savedArticles, comments, newsletters, events, rsvps, memberships>>

PrTokenClash(token) == \E t \in prTokens : t.token = token
CreatePasswordResetTokenOp(token, email, userId) ==
    LET res == CreateResult(PrTokenClash(token), FALSE) IN
    /\ HasSpace(res)
    /\ prTokens' = IF res = OK
                   THEN prTokens \cup {[id |-> NewPrTokenId, token |-> token,
                                        email |-> email, userId |-> userId]}
                   ELSE prTokens
    /\ last' = Outcome("CreatePasswordResetToken", res, 0)
    /\ UNCHANGED <<users, sessions, evTokens, articles, articleIndex, categories, tags, articleTags, savedArticles, comments, newsletters, events, rsvps, memberships>>

CategoryClash(name, slug) ==
    \E c \in categories : c.name = name \/ c.slug = slug
CreateCategoryOp(name, slug) ==
    LET res == CreateResult(CategoryClash(name, slug), FALSE) IN
    /\ HasSpace(res)
    /\ categories' = IF res = OK
                     THEN categories \cup {[id |-> NewCategoryId, name |-> name, slug |-> slug]}
                     ELSE categories
    /\ last' = Outcome("CreateCategory", res, 0)
    /\ UNCHANGED <<users, sessions, evTokens, prTokens, articles, articleIndex, tags, articleTags, savedArticles, comments, newsletters, events, rsvps, memberships>>

TagClash(name, slug) == \E t \in tags : t.name = name \/ t.slug = slug
CreateTagOp(name, slug) ==
    LET res == CreateResult(TagClash(name, slug), FALSE) IN
    /\ HasSpace(res)
    /\ tags' = IF res = OK
               THEN tags \cup {[id |-> NewTagId, name |-> name, slug |-> slug]}
               ELSE tags
    /\ last' = Outcome("CreateTag", res, 0)
    /\ UNCHANGED <<users, sessions, evTokens, prTokens, articles, articleIndex, categories, articleTags, savedArticles, comments, newsletters, events, rsvps, memberships>>

\* @@index([isPublished, publishedAt]): the entry of a row holds the indexed
\* columns and points to the row
IndexEntry(row) ==
    [isPublished |-> row.isPublished, publishedAt |-> row.publishedAt, id |-> row.id]
IndexAfterInsert(row) == articleIndex \cup {IndexEntry(row)}
IndexAfterUpdate(old, new) == (articleIndex \ {IndexEntry(old)}) \cup {IndexEntry(new)}
IndexAfterDelete(a) == {e \in articleIndex : e.id # a}

ArticleClash(slug) == \E a \in articles : a.slug = slug
ArticleFkMissing(authorId, categoryId) ==
    authorId \notin UserIds \/ categoryId \notin CategoryIds
CreateArticleOp(slug, authorId, categoryId, isPublished, publishedAt) ==
    LET res == CreateResult(ArticleClash(slug), ArticleFkMissing(authorId, categoryId))
        row == [id |-> NewArticleId, slug |-> slug, authorId |-> authorId,
                categoryId |-> categoryId,
                isPublished |-> Given(isPublished, IsPublishedDefault),
                publishedAt |-> publishedAt]
    IN
    /\ HasSpace(res)
    /\ articles' = IF res = OK THEN articles \cup {row} ELSE articles
    /\ articleIndex' = IF res = OK THEN IndexAfterInsert(row) ELSE articleIndex
    /\ last' = Outcome("CreateArticle", res, 0)
    /\ UNCHANGED <<users, sessions, evTokens, prTokens, categories, tags, articleTags, savedArticles, comments, newsletters, events, rsvps, memberships>>

ArticleTagClash(articleId, tagId) ==
    \E x \in articleTags : x.articleId = articleId /\ x.tagId = tagId
CreateArticleTagOp(articleId, tagId) ==
    LET res == CreateResult(ArticleTagClash(articleId, tagId),
                            articleId \notin ArticleIds \/ tagId \notin TagIds) IN
    /\ articleTags' = IF res = OK
                      THEN articleTags \cup {[articleId |-> articleId, tagId |-> tagId]}
                      ELSE articleTags
    /\ last' = Outcome("CreateArticleTag", res, 0)
    /\ HasSpace(res)
    /\ UNCHANGED <<users, sessions, evTokens, prTokens, articles, articleIndex, categories, tags, savedArticles, comments, newsletters, events, rsvps, memberships>>

SavedArticleClash(userId, articleId) ==
    \E s \in savedArticles : s.userId = userId /\ s.articleId = articleId
CreateSavedArticleOp(userId, articleId) ==
    LET res == CreateResult(SavedArticleClash(userId, articleId),
                            userId \notin UserIds \/ articleId \notin ArticleIds) IN
    /\ savedArticles' = IF res = OK
                        THEN savedArticles \cup {[userId |-> userId, articleId |-> articleId]}
                        ELSE savedArticles
    /\ last' = Outcome("CreateSavedArticle", res, 0)
    /\ HasSpace(res)
    /\ UNCHANGED <<users, sessions, evTokens, prTokens, articles, articleIndex, categories, tags, articleTags, comments, newsletters, events, rsvps, memberships>>

CreateCommentOp(userId, articleId) ==
    LET res == CreateResult(FALSE, userId \notin UserIds \/ articleId \notin ArticleIds) IN
    /\ HasSpace(res)
    /\ HasPlainSpace(res, comments)
    /\ comments' = IF res = OK
                   THEN comments \cup {[id |-> NewCommentId, userId |-> userId,
                                        articleId |-> articleId]}
                   ELSE comments
    /\ last' = Outcome("CreateComment", res, 0)
    /\ UNCHANGED <<users, sessions, evTokens, prTokens, articles, articleIndex, categories, tags, articleTags, savedArticles, newsletters, events, rsvps, memberships>>

NewsletterClash(email, confirmationToken) ==
    \E n \in newsletters :
        \/ n.email = email
        \/ (confirmationToken # NullStr /\ n.confirmationToken = confirmationToken)
CreateNewsletterSubscriptionOp(email, userId, confirmationToken) ==
    LET res == CreateResult(NewsletterClash(email, confirmationToken),
                            userId # Null /\ userId \notin UserIds) IN
    /\ HasSpace(res)
    /\ newsletters' = IF res = OK
                      THEN newsletters \cup
                           {[id |-> NewNewsletterId, email |-> email, userId |-> userId,
                             confirmationToken |-> confirmationToken]}
                      ELSE newsletters
    /\ last' = Outcome("CreateNewsletterSubscription", res, 0)
    /\ UNCHANGED <<users, sessions, evTokens, prTokens, articles, articleIndex, categories, tags, articleTags, savedArticles, comments, events, rsvps, memberships>>

CreateEventOp(capacity) ==
    LET res == CreateResult(FALSE, FALSE) IN
    /\ HasSpace(res)
    /\ HasPlainSpace(res, events)
    /\ events' = events \cup {[id |-> NewEventId, capacity |-> capacity]}
    /\ last' = Outcome("CreateEvent", res, 0)
    /\ UNCHANGED <<users, sessions, evTokens, prTokens, articles, articleIndex, categories, tags, articleTags, savedArticles, comments, newsletters, rsvps, memberships>>

\* faulty variant: no unique index on (userId, eventId)
EventRsvpNoClash(userId, eventId) == FALSE
EventRsvpClash(userId, eventId) ==
    \E r \in rsvps : r.userId = userId /\ r.eventId = eventId
CreateEventRsvpOp(userId, eventId, status) ==
    LET res == CreateResult(EventRsvpClash(userId, eventId),
                            userId \notin UserIds \/ eventId \notin EventIds) IN
    /\ HasSpace(res)
    /\ rsvps' = IF res = OK
                THEN rsvps \cup {[id |-> NewRsvpId, userId |-> userId, eventId |-> eventId,
                                  status |-> Given(status, RsvpStatusDefault)]}
                ELSE rsvps
    /\ last' = Outcome("CreateEventRsvp", res, 0)
    /\ UNCHANGED <<users, sessions, evTokens, prTokens, articles, articleIndex, categories, tags, articleTags, savedArticles, comments, newsletters, events, memberships>>

MembershipClash(userId, stripeCustomerId, stripeSubId) ==
    \E m \in memberships :
        \/ m.userId = userId
        \/ (stripeCustomerId # NullStr /\ m.stripeCustomerId = stripeCustomerId)
        \/ (stripeSubId # NullStr /\ m.stripeSubId = stripeSubId)
CreateMembershipSubscriptionOp(userId, stripeCustomerId, stripeSubId) ==
    LET res == CreateResult(MembershipClash(userId, stripeCustomerId, stripeSubId),
                            userId \notin UserIds) IN
    /\ HasSpace(res)
    /\ memberships' = IF res = OK
                      THEN memberships \cup
                           {[id |-> NewMembershipId, userId |-> userId,
                             stripeCustomerId |-> stripeCustomerId,
                             stripeSubId |-> stripeSubId]}
                      ELSE memberships
    /\ last' = Outcome("CreateMembershipSubscription", res, 0)
    /\ UNCHANGED <<users, sessions, evTokens, prTokens, articles, articleIndex, categories, tags, articleTags, savedArticles, comments, newsletters, events, rsvps>>


\* ---- Delete ----
\* A relation without onDelete is a required relation with the default action
\* Restrict: the parent row cannot be deleted while a child row references it,
\* and the failed statement changes nothing.
\* faulty variant: the author relation does not restrict the delete
UserDeleteUnrestricted(u) == FALSE
UserDeleteRestricted(u) == ArticlesOfAuthor(u) # {}
\* faulty variant: the category relation does not restrict the delete
CategoryDeleteUnrestricted(c) == FALSE
CategoryDeleteRestricted(c) == ArticlesOfCategory(c) # {}

DeleteResult(exists, restricted) ==
    IF ~exists THEN NotFound
    ELSE IF restricted THEN ForeignKeyViolation
    ELSE OK

\* faulty variant: the newsletter relation cascades instead of setting null
NewslettersCascadeOnUserDelete(u) == newsletters \ NewslettersOf(u)
\* onDelete: SetNull (NewsletterSubscription.user)
NewslettersAfterUserDelete(u) ==
    {IF n.userId = u THEN [n EXCEPT !.userId = Null] ELSE n : n \in newsletters}
\* onDelete: Cascade (Session, SavedArticle, Comment, EventRsvp, MembershipSubscription)
SessionsAfterUserDelete(u) == sessions \ SessionsOf(u)
SavedAfterUserDelete(u) == savedArticles \ SavedOfUser(u)
CommentsAfterUserDelete(u) == comments \ CommentsOfUser(u)
RsvpsAfterUserDelete(u) == rsvps \ RsvpsOfUser(u)
MembershipsAfterUserDelete(u) == memberships \ MembershipsOf(u)
\* faulty variant: the token table cascades with the user
EvTokensCascadeOnUserDelete(u) == {t \in evTokens : t.userId # u}
\* the token tables declare no relation to User: a user delete does not reach them
EvTokensAfterUserDelete(u) == evTokens
PrTokensAfterUserDelete(u) == prTokens

UserDependents(u) ==
    Cardinality(SessionsOf(u)) + Cardinality(SavedOfUser(u))
    + Cardinality(CommentsOfUser(u)) + Cardinality(RsvpsOfUser(u))
    + Cardinality(MembershipsOf(u)) + Cardinality(NewslettersOf(u))

DeleteUserOp(u) ==
    LET res == DeleteResult(u \in UserIds, UserDeleteRestricted(u)) IN
    /\ IF res = OK
       THEN /\ users' = {x \in users : x.id # u}
            /\ sessions' = SessionsAfterUserDelete(u)
            /\ savedArticles' = SavedAfterUserDelete(u)
            /\ comments' = CommentsAfterUserDelete(u)
            /\ rsvps' = RsvpsAfterUserDelete(u)
            /\ memberships' = MembershipsAfterUserDelete(u)
            /\ newsletters' = NewslettersAfterUserDelete(u)
            /\ evTokens' = EvTokensAfterUserDelete(u)
            /\ prTokens' = PrTokensAfterUserDelete(u)
       ELSE UNCHANGED <<users, sessions, savedArticles, comments, rsvps,
                        memberships, newsletters, evTokens, prTokens>>
    /\ last' = Outcome("DeleteUser", res, IF res = OK THEN UserDependents(u) ELSE 0)
    /\ UNCHANGED <<articles, articleIndex, categories, tags, articleTags, events>>

\* faulty variant: bookmarks are removed whatever article they belong to
SavedWipedOnArticleDelete(a) == {}
\* faulty variant: comments survive the delete of their article
CommentsKeptOnArticleDelete(a) == comments
\* onDelete: Cascade (ArticleTag.article, SavedArticle.article, Comment.article)
TagsAfterArticleDelete(a) == articleTags \ TagsOfArticle(a)
SavedAfterArticleDelete(a) == savedArticles \ SavedOfArticle(a)
CommentsAfterArticleDelete(a) == comments \ CommentsOfArticle(a)

ArticleDependents(a) ==
    Cardinality(TagsOfArticle(a)) + Cardinality(SavedOfArticle(a))
    + Cardinality(CommentsOfArticle(a))

DeleteArticleOp(a) ==
    LET res == DeleteResult(a \in ArticleIds, FALSE) IN
    /\ IF res = OK
       THEN /\ articles' = {x \in articles : x.id # a}
            /\ articleIndex' = IndexAfterDelete(a)
            /\ articleTags' = TagsAfterArticleDelete(a)
            /\ savedArticles' = SavedAfterArticleDelete(a)
            /\ comments' = CommentsAfterArticleDelete(a)
       ELSE UNCHANGED <<articles, articleIndex, articleTags, savedArticles, comments>>
    /\ last' = Outcome("DeleteArticle", res, IF res = OK THEN ArticleDependents(a) ELSE 0)
    /\ UNCHANGED <<users, sessions, evTokens, prTokens, categories, tags,
                   newsletters, events, rsvps, memberships>>

DeleteCategoryOp(c) ==
    LET res == DeleteResult(c \in CategoryIds, CategoryDeleteRestricted(c)) IN
    /\ categories' = IF res = OK THEN {x \in categories : x.id # c} ELSE categories
    /\ last' = Outcome("DeleteCategory", res, 0)
    /\ UNCHANGED <<users, sessions, evTokens, prTokens, articles, articleIndex, tags, articleTags, savedArticles, comments, newsletters, events, rsvps, memberships>>

\* onDelete: Cascade (ArticleTag.tag)
ArticleTagsAfterTagDelete(t) == articleTags \ ArticleTagsOfTag(t)

DeleteTagOp(t) ==
    LET res == DeleteResult(t \in TagIds, FALSE) IN
    /\ IF res = OK
       THEN /\ tags' = {x \in tags : x.id # t}
            /\ articleTags' = ArticleTagsAfterTagDelete(t)
       ELSE UNCHANGED <<tags, articleTags>>
    /\ last' = Outcome("DeleteTag", res,
                       IF res = OK THEN Cardinality(ArticleTagsOfTag(t)) ELSE 0)
    /\ UNCHANGED <<users, sessions, evTokens, prTokens, articles, articleIndex, categories, savedArticles, comments, newsletters, events, rsvps, memberships>>

\* onDelete: Cascade (EventRsvp.event)
RsvpsAfterEventDelete(e) == rsvps \ RsvpsOfEvent(e)

DeleteEventOp(e) ==
    LET res == DeleteResult(e \in EventIds, FALSE) IN
    /\ IF res = OK
       THEN /\ events' = {x \in events : x.id # e}
            /\ rsvps' = RsvpsAfterEventDelete(e)
       ELSE UNCHANGED <<events, rsvps>>
    /\ last' = Outcome("DeleteEvent", res,
                       IF res = OK THEN Cardinality(RsvpsOfEvent(e)) ELSE 0)
    /\ UNCHANGED <<users, sessions, evTokens, prTokens, articles, articleIndex, categories, tags, articleTags, savedArticles, comments, newsletters, memberships>>

\* ---- Update ----
\* EventRsvp.status is an enum column: any member may replace any other
RsvpsAfterStatusUpdate(userId, eventId, status) ==
    {IF r.userId = userId /\ r.eventId = eventId THEN [r EXCEPT !.status = status] ELSE r
        : r \in rsvps}

UpdateEventRsvpOp(userId, eventId, status) ==
    LET res == IF EventRsvpClash(userId, eventId) THEN OK ELSE NotFound IN
    /\ rsvps' = IF res = OK THEN RsvpsAfterStatusUpdate(userId, eventId, status) ELSE rsvps
    /\ last' = Outcome("UpdateEventRsvp", res, 0)
    /\ UNCHANGED <<users, sessions, evTokens, prTokens, articles, articleIndex, categories, tags, articleTags, savedArticles, comments, newsletters, events, memberships>>

\* the fields of an Article update that are present replace the stored ones
ArticleUpdated(row, categoryId, isPublished, publishedAt) ==
    [row EXCEPT !.categoryId = Given(categoryId, row.categoryId),
                !.isPublished = Given(isPublished, row.isPublished),
                !.publishedAt = Given(publishedAt, row.publishedAt)]

UpdateArticleOp(a, categoryId, isPublished, publishedAt) ==
    LET res == IF a \notin ArticleIds THEN NotFound
               ELSE IF categoryId # <<>> /\ categoryId[1] \notin CategoryIds
                    THEN ForeignKeyViolation
               ELSE OK
    IN
    /\ articles' = IF res = OK
                   THEN {IF x.id = a
                         THEN ArticleUpdated(x, categoryId, isPublished, publishedAt)
                         ELSE x : x \in articles}
                   ELSE articles
    /\ articleIndex' =
          IF res = OK
          THEN LET old == CHOOSE x \in articles : x.id = a IN
               IndexAfterUpdate(old, ArticleUpdated(old, categoryId, isPublished, publishedAt))
          ELSE articleIndex
    /\ last' = Outcome("UpdateArticle", res, 0)
    /\ UNCHANGED <<users, sessions, evTokens, prTokens, categories, tags, articleTags, savedArticles, comments, newsletters, events, rsvps, memberships>>


\* ---- the store as a state machine ----
Handlers == {"h1", "h2"}
NoRequest == Outcome("none", OK, 0)

InitStore ==
    /\ users = {} /\ sessions = {} /\ evTokens = {} /\ prTokens = {}
    /\ articles = {} /\ categories = {} /\ tags = {} /\ articleTags = {}
    /\ savedArticles = {} /\ comments = {} /\ newsletters = {} /\ events = {}
    /\ rsvps = {} /\ memberships = {} /\ articleIndex = {}
    /\ last = NoRequest
    /\ hpc = [h \in Handlers |-> "idle"]
    /\ hreq = [h \in Handlers |-> <<>>]
    /\ hres = [h \in Handlers |-> "none"]

Init == InitStore /\ txMode = "none"

OptId(S) == S \cup {Null}
OptStr(S) == S \cup {NullStr}
Opt(S) == {<<>>} \cup {<<v>> : v \in S}

\* A reference in a request names a row of the table or an id no row has.
UserRefs == UserIds \cup {NewUserId}
ArticleRefs == ArticleIds \cup {NewArticleId}
CategoryRefs == CategoryIds \cup {NewCategoryId}
TagRefs == TagIds \cup {NewTagId}
EventRefs == EventIds \cup {NewEventId}

\* One action per store operation.  The arguments of a request are drawn from
\* the sets the action is given.
CreateUser(E, N) ==
    \E e \in E, n \in N : CreateUserOp(e, n) /\ UNCHANGED hvars
CreateSession(S) ==
    \E s \in S, u \in UserRefs : CreateSessionOp(s, u) /\ UNCHANGED hvars
CreateEmailVerificationToken(T, E, U) ==
    \E t \in T, e \in E, u \in U :
        CreateEmailVerificationTokenOp(t, e, u) /\ UNCHANGED hvars
CreatePasswordResetToken(T, E, U) ==
    \E t \in T, e \in E, u \in U :
        CreatePasswordResetTokenOp(t, e, u) /\ UNCHANGED hvars
CreateCategory(N, S) ==
    \E n \in N, s \in S : CreateCategoryOp(n, s) /\ UNCHANGED hvars
CreateTag(N, S) ==
    \E n \in N, s \in S : CreateTagOp(n, s) /\ UNCHANGED hvars
CreateArticle(S, P, T) ==
    \E s \in S, u \in UserRefs, c \in CategoryRefs, p \in P, t \in T :
        CreateArticleOp(s, u, c, p, t) /\ UNCHANGED hvars
CreateArticleTag ==
    \E a \in ArticleRefs, t \in TagRefs : CreateArticleTagOp(a, t) /\ UNCHANGED hvars
CreateSavedArticle ==
    \E u \in UserRefs, a \in ArticleRefs : CreateSavedArticleOp(u, a) /\ UNCHANGED hvars
CreateComment ==
    \E u \in UserRefs, a \in ArticleRefs : CreateCommentOp(u, a) /\ UNCHANGED hvars
CreateNewsletterSubscription(E, U, T) ==
    \E e \in E, u \in U, t \in T :
        CreateNewsletterSubscriptionOp(e, u, t) /\ UNCHANGED hvars
CreateEvent(C) ==
    \E c \in C : CreateEventOp(c) /\ UNCHANGED hvars
CreateEventRsvp(St) ==
    \E u \in UserRefs, e \in EventRefs, st \in St :
        CreateEventRsvpOp(u, e, st) /\ UNCHANGED hvars
CreateMembershipSubscription(C, Sb) ==
    \E u \in UserRefs, c \in C, sb \in Sb :
        CreateMembershipSubscriptionOp(u, c, sb) /\ UNCHANGED hvars
DeleteUser == \E u \in UserRefs : DeleteUserOp(u) /\ UNCHANGED hvars
DeleteArticle == \E a \in ArticleRefs : DeleteArticleOp(a) /\ UNCHANGED hvars
DeleteCategory == \E c \in CategoryRefs : DeleteCategoryOp(c) /\ UNCHANGED hvars
DeleteTag == \E t \in TagRefs : DeleteTagOp(t) /\ UNCHANGED hvars
DeleteEvent == \E e \in EventRefs : DeleteEventOp(e) /\ UNCHANGED hvars
UpdateEventRsvp ==
    \E u \in UserRefs, e \in EventRefs, st \in RsvpStatus :
        UpdateEventRsvpOp(u, e, st) /\ UNCHANGED hvars
UpdateArticle(C, P, T) ==
    \E a \in ArticleRefs, c \in C, p \in P, t \in T :
        UpdateArticleOp(a, c, p, t) /\ UNCHANGED hvars

\* ---- deleting a user: every table a User row is related to ----
\* newsletter subscriptions are created linked to a user here, so that an
\* unlinked one is the trace of a deleted user
NextUser ==
    \/ CreateUser(Emails, {NullStr})
    \/ CreateSession({"s1"})
    \/ CreateCategory({"Tech"}, {"tech"})
    \/ CreateArticle({"tech"}, {<<>>}, {Null})
    \/ CreateSavedArticle
    \/ CreateComment
    \/ CreateNewsletterSubscription({"a@x"}, UserRefs, {NullStr})
    \/ CreateEvent({Null})
    \/ CreateEventRsvp({<<>>})
    \/ CreateMembershipSubscription({NullStr}, {NullStr})
    \/ DeleteUser

SpecUser == Init /\ [][NextUser]_vars


\* ---- deleting a user who holds verification and reset tokens ----
\* the application issues a token for a user that exists
NextToken ==
    \/ CreateUser(Emails, {NullStr})
    \/ CreateSession({"s1"})
    \/ CreateEmailVerificationToken(Tokens, {"a@x"}, UserIds)
    \/ CreatePasswordResetToken(Tokens, {"a@x"}, UserIds)
    \/ DeleteUser

SpecToken == Init /\ [][NextToken]_vars

\* ---- articles, their category and their dependent rows ----
NextArticle ==
    \/ CreateUser(Emails, {NullStr})
    \/ CreateCategory(Names, {"tech", "life"})
    \/ CreateTag({"Tech"}, {"tech"})
    \/ CreateArticle(Slugs, {<<>>}, {Null})
    \/ CreateArticleTag
    \/ CreateSavedArticle
    \/ CreateComment
    \/ UpdateArticle(Opt(CategoryRefs), {<<>>}, {<<>>})
    \/ DeleteArticle
    \/ DeleteCategory

SpecArticle == Init /\ [][NextArticle]_vars

\* ---- publishing articles ----
\* the article "tech" is created as a draft, the article "life" is created
\* published; either is published, withdrawn and re-dated by updates
NextListing ==
    \/ CreateUser({"a@x"}, {NullStr})
    \/ CreateCategory({"Tech"}, {"tech"})
    \/ CreateArticle({"tech"}, {<<>>, <<FALSE>>}, OptId(Times))
    \/ CreateArticle({"life"}, {<<TRUE>>}, OptId(Times))
    \/ UpdateArticle({<<>>}, Opt(BOOLEAN), Opt(OptId(Times)))
    \/ DeleteArticle

SpecListing == Init /\ [][NextListing]_vars

\* ---- event RSVPs ----
NextRsvp ==
    \/ CreateUser(Emails, {NullStr})
    \/ CreateEvent({Null})
    \/ CreateEventRsvp({<<>>, <<"WAITLISTED">>})
    \/ UpdateEventRsvp
    \/ DeleteEvent

SpecRsvp == Init /\ [][NextRsvp]_vars

\* ---- every relation of the schema ----
Next ==
    \/ CreateUser(Emails, {NullStr})
    \/ CreateSession({"s1"})
    \/ CreateCategory({"Tech"}, {"tech"})
    \/ CreateTag({"Tech"}, {"tech"})
    \/ CreateArticle({"tech"}, {<<>>}, {Null})
    \/ CreateArticleTag
    \/ CreateSavedArticle
    \/ CreateComment
    \/ CreateNewsletterSubscription({"a@x"}, OptId(UserRefs), {NullStr})
    \/ CreateEvent({Null})
    \/ CreateEventRsvp({<<>>})
    \/ CreateMembershipSubscription({NullStr}, {NullStr})
    \/ UpdateArticle(Opt(CategoryRefs), {<<>>}, {<<>>})
    \/ DeleteUser \/ DeleteArticle \/ DeleteCategory \/ DeleteTag \/ DeleteEvent

Spec == Init /\ [][Next]_vars


\* ---- concurrent request handlers ----
\* A handler holds one store connection.  It prepares a Create request and
\* later sends it; the store runs each statement as one atomic step, in the
\* order the statements arrive.
Request(table, args) == [table |-> table, args |-> args]

\* the result the store gives a Create request in the current state
RequestResult(r) ==
    CASE r.table = "User" ->
            CreateResult(UserClash(r.args[1], r.args[2]), FALSE)
      [] r.table = "Category" ->
            CreateResult(CategoryClash(r.args[1], r.args[2]), FALSE)
      [] r.table = "Tag" ->
            CreateResult(TagClash(r.args[1], r.args[2]), FALSE)
      [] r.table = "Article" ->
            CreateResult(ArticleClash(r.args[1]), ArticleFkMissing(r.args[2], r.args[3]))
      [] r.table = "EmailVerificationToken" ->
            CreateResult(EvTokenClash(r.args[1]), FALSE)
      [] r.table = "PasswordResetToken" ->
            CreateResult(PrTokenClash(r.args[1]), FALSE)
      [] r.table = "NewsletterSubscription" ->
            CreateResult(NewsletterClash(r.args[1], r.args[3]),
                         r.args[2] # Null /\ r.args[2] \notin UserIds)
      [] r.table = "MembershipSubscription" ->
            CreateResult(MembershipClash(r.args[1], r.args[2], r.args[3]),
                         r.args[1] \notin UserIds)

\* the store operation a request stands for
RequestOp(r) ==
    CASE r.table = "User" -> CreateUserOp(r.args[1], r.args[2])
      [] r.table = "Category" -> CreateCategoryOp(r.args[1], r.args[2])
      [] r.table = "Tag" -> CreateTagOp(r.args[1], r.args[2])
      [] r.table = "Article" ->
            CreateArticleOp(r.args[1], r.args[2], r.args[3], <<>>, Null)
      [] r.table = "EmailVerificationToken" ->
            CreateEmailVerificationTokenOp(r.args[1], r.args[2], r.args[3])
      [] r.table = "PasswordResetToken" ->
            CreatePasswordResetTokenOp(r.args[1], r.args[2], r.args[3])
      [] r.table = "NewsletterSubscription" ->
            CreateNewsletterSubscriptionOp(r.args[1], r.args[2], r.args[3])
      [] r.table = "MembershipSubscription" ->
            CreateMembershipSubscriptionOp(r.args[1], r.args[2], r.args[3])

\* the Create requests on the tables that have a @unique column
UniqueRequests ==
    {Request("User", <<e, n>>) : e \in Emails, n \in OptStr(Usernames)}
    \cup {Request("Category", <<n, sl>>) : n \in Names, sl \in Slugs}
    \cup {Request("Tag", <<n, sl>>) : n \in Names, sl \in Slugs}
    \cup {Request("Article", <<sl, u, c>>) : sl \in Slugs, u \in UserIds, c \in CategoryIds}
    \cup {Request("EmailVerificationToken", <<t, "a@x", NewUserId>>) : t \in Tokens}
    \cup {Request("PasswordResetToken", <<t, "a@x", NewUserId>>) : t \in Tokens}
    \cup {Request("NewsletterSubscription", <<e, Null, t>>) : e \in Emails, t \in OptStr(Tokens)}
    \cup {Request("MembershipSubscription", <<u, c, sb>>) :
            u \in UserIds, c \in OptStr(StripeIds), sb \in OptStr(StripeIds)}

AllIdle == \A h \in Handlers : hpc[h] = "idle"

\* the store is filled before the handlers start
Setup(A) == AllIdle /\ A

\* a handler prepares a request that the store, as it is now, would accept
Prepare(h) ==
    /\ hpc[h] = "idle"
    /\ \E r \in UniqueRequests :
        /\ RequestResult(r) = OK
        /\ hreq' = [hreq EXCEPT ![h] = r]
    /\ hpc' = [hpc EXCEPT ![h] = "prepared"]
    /\ UNCHANGED <<store, last, hres, txMode>>

\* the handler's statement reaches the store
Send(h) ==
    /\ hpc[h] = "prepared"
    /\ RequestOp(hreq[h])
    /\ hres' = [hres EXCEPT ![h] = last'.res]
    /\ hpc' = [hpc EXCEPT ![h] = "done"]
    /\ UNCHANGED <<hreq, txMode>>

NextUnique ==
    \/ Setup(CreateUser(Emails, {NullStr}))
    \/ Setup(CreateCategory({"Tech"}, {"tech"}))
    \/ \E h \in Handlers : Prepare(h)
    \/ \E h \in Handlers : Send(h)

SpecUnique == Init /\ [][NextUnique]_vars


\* ---- listing published articles ----
\* The listing reads the index on (isPublished, publishedAt): the entries with
\* isPublished = true, from the last to the first.
\* ORDER BY "publishedAt" DESC: PostgreSQL puts NULL before every value
PublishKey(e) == IF e.publishedAt = Null THEN MaxTime + 1 ELSE e.publishedAt

RECURSIVE SortDesc(_)
SortDesc(S) ==
    IF S = {} THEN <<>>
    ELSE LET first == CHOOSE x \in S : \A y \in S :
                          \/ PublishKey(x) > PublishKey(y)
                          \/ (PublishKey(x) = PublishKey(y) /\ x.id <= y.id)
         IN <<first>> \o SortDesc(S \ {first})

\* faulty variant: the listing leaves out the articles that have no publish date
ListPublishedDated ==
    SortDesc({e \in articleIndex : e.isPublished /\ e.publishedAt # Null})
\* findMany where isPublished = true, orderBy publishedAt desc
ListPublished == SortDesc({e \in articleIndex : e.isPublished})

Occurrences(list, id) == Cardinality({i \in 1..Len(list) : list[i].id = id})

\* ---- RSVP with a capacity check ----
InitCapacity == InitStore /\ txMode \in {"split", "atomic"}

ConfirmedCount(e) ==
    Cardinality({r \in rsvps : r.eventId = e /\ r.status = "CONFIRMED"})
HasRoom(e) ==
    \E ev \in events :
        ev.id = e /\ (ev.capacity = Null \/ ConfirmedCount(e) < ev.capacity)
OverCapacity(e) ==
    \E ev \in events :
        ev.id = e /\ ev.capacity # Null /\ ConfirmedCount(e) > ev.capacity

\* without a transaction: the handler counts the CONFIRMED rows ...
RsvpCheck(h) ==
    /\ txMode = "split"
    /\ hpc[h] = "idle"
    /\ \E u \in UserIds, e \in EventIds :
        /\ HasRoom(e)
        /\ hreq' = [hreq EXCEPT ![h] = Request("EventRsvp", <<u, e>>)]
    /\ hpc' = [hpc EXCEPT ![h] = "checked"]
    /\ UNCHANGED <<store, last, hres, txMode>>

\* ... and inserts in a later statement
RsvpInsert(h) ==
    /\ hpc[h] = "checked"
    /\ CreateEventRsvpOp(hreq[h].args[1], hreq[h].args[2], <<"CONFIRMED">>)
    /\ hres' = [hres EXCEPT ![h] = last'.res]
    /\ hpc' = [hpc EXCEPT ![h] = "done"]
    /\ UNCHANGED <<hreq, txMode>>

\* faulty variant: the insert does not look at the capacity
RsvpAtomicUnchecked(h) ==
    /\ txMode = "atomic"
    /\ hpc[h] = "idle"
    /\ \E u \in UserIds, e \in EventIds :
        /\ CreateEventRsvpOp(u, e, <<"CONFIRMED">>)
        /\ hreq' = [hreq EXCEPT ![h] = Request("EventRsvp", <<u, e>>)]
    /\ hres' = [hres EXCEPT ![h] = last'.res]
    /\ hpc' = [hpc EXCEPT ![h] = "done"]
    /\ UNCHANGED txMode

\* check and insert as one atomic step
RsvpAtomic(h) ==
    /\ txMode = "atomic"
    /\ hpc[h] = "idle"
    /\ \E u \in UserIds, e \in EventIds :
        /\ HasRoom(e)
        /\ CreateEventRsvpOp(u, e, <<"CONFIRMED">>)
        /\ hreq' = [hreq EXCEPT ![h] = Request("EventRsvp", <<u, e>>)]
    /\ hres' = [hres EXCEPT ![h] = last'.res]
    /\ hpc' = [hpc EXCEPT ![h] = "done"]
    /\ UNCHANGED txMode

NextCapacity ==
    \/ Setup(CreateUser(Emails, {NullStr}))
    \/ Setup(CreateEvent(OptId(Capacities)))
    \/ \E h \in Handlers : RsvpCheck(h)
    \/ \E h \in Handlers : RsvpInsert(h)
    \/ \E h \in Handlers : RsvpAtomic(h)

SpecCapacity == InitCapacity /\ [][NextCapacity]_vars

\* ======================= properties =======================

\* C1: after a successful Delete of User u no Session, SavedArticle, Comment,
\* EventRsvp or MembershipSubscription with userId = u remains, and every
\* NewsletterSubscription that had userId = u is still there with the same id,
\* email and token but with userId = null.
C1_UserDeleteCascades ==
    [][\A u \in UserIds :
        (last'.op = "DeleteUser" /\ DeleteUserOp(u) /\ last'.res = OK) =>
            /\ u \notin UserIds'
            /\ \A s \in sessions' : s.userId # u
            /\ \A s \in savedArticles' : s.userId # u
            /\ \A c \in comments' : c.userId # u
            /\ \A r \in rsvps' : r.userId # u
            /\ \A m \in memberships' : m.userId # u
            /\ \A n \in newsletters' : n.userId # u
            /\ \A n \in NewslettersOf(u) : [n EXCEPT !.userId = Null] \in newsletters'
            /\ Cardinality(newsletters') = Cardinality(newsletters)
    ]_vars

\* a user with at least two dependent rows, one of them a newsletter
\* subscription, has just been deleted
C1_Witness ==
    /\ last.op = "DeleteUser" /\ last.res = OK /\ last.n >= 2
    /\ \E n \in newsletters : n.userId = Null

\* C9: Delete of a User who is the author of an Article is rejected with
\* ForeignKeyViolation and leaves every table unchanged.
C9_AuthorDeleteRejected ==
    [][\A u \in UserIds :
        (last'.op = "DeleteUser" /\ DeleteUserOp(u) /\ ArticlesOfAuthor(u) # {}) =>
            /\ last'.res = ForeignKeyViolation
            /\ UNCHANGED store
    ]_vars

\* the delete of an author who also has a session and a membership was rejected
C9_Witness ==
    /\ last.op = "DeleteUser" /\ last.res = ForeignKeyViolation
    /\ \E u \in UserIds :
        /\ ArticlesOfAuthor(u) # {}
        /\ SessionsOf(u) # {}
        /\ MembershipsOf(u) # {}


\* C6: deleting a User leaves the EmailVerificationToken and PasswordResetToken
\* tables as they were, row for row.
C6_TokensSurviveUserDelete ==
    [][\A u \in UserRefs :
        (last'.op = "DeleteUser" /\ DeleteUserOp(u))
            => (evTokens' = evTokens /\ prTokens' = prTokens)
    ]_vars

\* a user has just been deleted and a token of each kind still names it
C6_Witness ==
    /\ last.op = "DeleteUser" /\ last.res = OK
    /\ \E t \in evTokens : t.userId \notin UserIds
    /\ \E t \in prTokens : t.userId \notin UserIds

\* C2: Delete of Article a removes a, its ArticleTags, SavedArticles and
\* Comments, and nothing else: categories, users, tags and the rows of other
\* articles are as before.
C2_ArticleDeleteFrame ==
    [][\A a \in ArticleIds :
        (last'.op = "DeleteArticle" /\ DeleteArticleOp(a)) =>
            /\ last'.res = OK
            /\ articles' = {x \in articles : x.id # a}
            /\ articleTags' = {x \in articleTags : x.articleId # a}
            /\ savedArticles' = {x \in savedArticles : x.articleId # a}
            /\ comments' = {x \in comments : x.articleId # a}
            /\ UNCHANGED <<categories, users, tags, sessions, evTokens, prTokens,
                           newsletters, events, rsvps, memberships>>
    ]_vars

\* an article has just been deleted while another article keeps its bookmark
C2_Witness ==
    /\ last.op = "DeleteArticle" /\ last.res = OK
    /\ \E a \in ArticleIds : SavedOfArticle(a) # {}

\* C3: Delete of a Category that an Article references is rejected with
\* ForeignKeyViolation and changes nothing; Delete of a Category that no
\* Article references succeeds and removes it.
C3_CategoryDelete ==
    [][\A c \in CategoryIds :
        (last'.op = "DeleteCategory" /\ DeleteCategoryOp(c)) =>
            IF ArticlesOfCategory(c) # {}
            THEN last'.res = ForeignKeyViolation /\ UNCHANGED store
            ELSE /\ last'.res = OK
                 /\ c \notin CategoryIds'
                 /\ articles' = articles
    ]_vars

\* the delete of a category that still has an article was rejected
C3_Witness ==
    /\ last.op = "DeleteCategory" /\ last.res = ForeignKeyViolation
    /\ \E c \in CategoryIds : ArticlesOfCategory(c) # {}
    /\ \E c \in CategoryIds : ArticlesOfCategory(c) = {}

\* @@unique([userId, eventId]) as a property of the table
RsvpPairsUnique ==
    \A r1 \in rsvps, r2 \in rsvps :
        (r1.userId = r2.userId /\ r1.eventId = r2.eventId) => r1 = r2

\* C5: there is at most one EventRsvp per (userId, eventId); Create of a second
\* one fails with UniqueConstraintViolation and changes nothing; Update of the
\* existing row to any status succeeds and leaves exactly one row for the pair.
C5_OneRsvpPerPair ==
    /\ []RsvpPairsUnique
    /\ [][\A u \in UserIds, e \in EventIds :
            (\E r \in rsvps : r.userId = u /\ r.eventId = e) =>
                /\ \A st \in Opt(RsvpStatus) :
                      (last'.op = "CreateEventRsvp" /\ CreateEventRsvpOp(u, e, st)) =>
                          (last'.res = UniqueConstraintViolation /\ UNCHANGED store)
                /\ \A st \in RsvpStatus :
                      (last'.op = "UpdateEventRsvp" /\ UpdateEventRsvpOp(u, e, st)) =>
                          /\ last'.res = OK
                          /\ Cardinality({r \in rsvps' : r.userId = u /\ r.eventId = e}) = 1
                          /\ \A r \in rsvps' : (r.userId = u /\ r.eventId = e) => r.status = st
                          /\ Cardinality(rsvps') = Cardinality(rsvps)
       ]_vars

\* a second Create for a pair was refused while the pair's row, updated to
\* CANCELLED earlier, is still the only one
C5_Witness ==
    /\ last.op = "CreateEventRsvp" /\ last.res = UniqueConstraintViolation
    /\ \E r \in rsvps : r.status = "CANCELLED"


\* the listing holds the published articles, each once with the publish date
\* of its row, latest first, and nothing else
ListingMatchesFlag ==
    /\ \A a \in articles :
          Occurrences(ListPublished, a.id) = IF a.isPublished THEN 1 ELSE 0
    /\ \A i \in 1..Len(ListPublished) :
          \E a \in articles : IndexEntry(a) = ListPublished[i]
    /\ \A i \in 1..Len(ListPublished), j \in 1..Len(ListPublished) :
          i < j => PublishKey(ListPublished[i]) >= PublishKey(ListPublished[j])

\* C7: the listing of published articles holds an article exactly once when
\* its isPublished is true and not at all when it is false; an article created
\* with isPublished = false is absent, and an Update that sets isPublished =
\* true makes it present exactly once, whatever its publishedAt.
C7_PublishedListing ==
    /\ []ListingMatchesFlag
    /\ [][/\ \A sl \in Slugs, u \in UserIds, c \in CategoryIds, t \in OptId(Times) :
              (/\ last'.op = "CreateArticle"
               /\ CreateArticleOp(sl, u, c, <<FALSE>>, t)
               /\ last'.res = OK) =>
                  /\ NewArticleId \in ArticleIds'
                  /\ Occurrences(ListPublished', NewArticleId) = 0
          /\ \A a \in ArticleIds, t \in Opt(OptId(Times)) :
              (last'.op = "UpdateArticle" /\ UpdateArticleOp(a, <<>>, <<TRUE>>, t)) =>
                  /\ last'.res = OK
                  /\ Occurrences(ListPublished', a) = 1
       ]_vars

\* the article created as a draft has been published by an update and has no
\* publishedAt; the article created published has been withdrawn
C7_Witness ==
    /\ last.op = "UpdateArticle" /\ last.res = OK
    /\ \E a \in articles : a.slug = "tech" /\ a.isPublished /\ a.publishedAt = Null
    /\ \E a \in articles : a.slug = "life" /\ ~a.isPublished
    /\ Len(ListPublished) = 1

\* C10: with the capacity check and the insert in separate statements two
\* handlers can confirm more RSVPs than the event's capacity; with check and
\* insert as one atomic step no event ever has more CONFIRMED RSVPs than its
\* capacity.
C10_AtomicCheckBoundsRsvps ==
    txMode = "atomic" => \A e \in EventIds : ~OverCapacity(e)

\* both handlers checked, then both inserted: the event is over capacity
C10_Witness ==
    /\ txMode = "split"
    /\ \A h \in Handlers : hpc[h] = "done" /\ hres[h] = OK
    /\ \E e \in EventIds : OverCapacity(e)


\* no two rows of the table share a non-null value of the column
NoSharedValue(table, field, null) ==
    \A r1 \in table, r2 \in table :
        (r1[field] # null /\ r1[field] = r2[field]) => r1 = r2

UniqueColumns ==
    /\ NoSharedValue(users, "email", NullStr)
    /\ NoSharedValue(users, "username", NullStr)
    /\ NoSharedValue(articles, "slug", NullStr)
    /\ NoSharedValue(categories, "name", NullStr)
    /\ NoSharedValue(categories, "slug", NullStr)
    /\ NoSharedValue(tags, "name", NullStr)
    /\ NoSharedValue(tags, "slug", NullStr)
    /\ NoSharedValue(evTokens, "token", NullStr)
    /\ NoSharedValue(prTokens, "token", NullStr)
    /\ NoSharedValue(newsletters, "email", NullStr)
    /\ NoSharedValue(newsletters, "confirmationToken", NullStr)
    /\ NoSharedValue(memberships, "userId", Null)
    /\ NoSharedValue(memberships, "stripeCustomerId", NullStr)
    /\ NoSharedValue(memberships, "stripeSubId", NullStr)

SameValue(v, w, null) == v # null /\ v = w

\* two Create requests carry the same non-null value in a unique column
Collide(r1, r2) ==
    /\ r1.table = r2.table
    /\ CASE r1.table \in {"User", "NewsletterSubscription", "Category", "Tag"} ->
                \/ SameValue(r1.args[1], r2.args[1], NullStr)
                \/ SameValue(r1.args[Len(r1.args)], r2.args[Len(r2.args)], NullStr)
         [] r1.table \in {"Article", "EmailVerificationToken", "PasswordResetToken"} ->
                SameValue(r1.args[1], r2.args[1], NullStr)
         [] r1.table = "MembershipSubscription" ->
                \/ SameValue(r1.args[1], r2.args[1], Null)
                \/ SameValue(r1.args[2], r2.args[2], NullStr)
                \/ SameValue(r1.args[3], r2.args[3], NullStr)

\* C4: no two rows of a table share a non-null value of a unique column; and
\* when two handlers each send a Create that the store would have accepted
\* when it was prepared, and the two rows carry the same non-null value in a
\* unique column, one Create succeeds and the other fails with
\* UniqueConstraintViolation.
C4_UniqueUnderRace ==
    /\ UniqueColumns
    /\ \A h1 \in Handlers, h2 \in Handlers :
        (/\ h1 # h2
         /\ hpc[h1] = "done" /\ hpc[h2] = "done"
         /\ Collide(hreq[h1], hreq[h2]))
        => \/ (hres[h1] = OK /\ hres[h2] = UniqueConstraintViolation)
           \/ (hres[h2] = OK /\ hres[h1] = UniqueConstraintViolation)

\* two handlers raced to create users with the same username and different
\* emails: one won
C4_Witness ==
    /\ hpc["h1"] = "done" /\ hpc["h2"] = "done"
    /\ hreq["h1"].table = "User" /\ hreq["h2"].table = "User"
    /\ hreq["h1"].args[1] # hreq["h2"].args[1]
    /\ hreq["h1"].args[2] = hreq["h2"].args[2] /\ hreq["h1"].args[2] # NullStr
    /\ hres["h1"] = UniqueConstraintViolation /\ hres["h2"] = OK

\* every foreign key column names a row of the table it references
ReferentialIntegrity ==
    /\ \A x \in sessions : x.userId \in UserIds
    /\ \A x \in savedArticles : x.userId \in UserIds /\ x.articleId \in ArticleIds
    /\ \A x \in comments : x.userId \in UserIds /\ x.articleId \in ArticleIds
    /\ \A x \in rsvps : x.userId \in UserIds /\ x.eventId \in EventIds
    /\ \A x \in memberships : x.userId \in UserIds
    /\ \A x \in articles : x.authorId \in UserIds /\ x.categoryId \in CategoryIds
    /\ \A x \in articleTags : x.articleId \in ArticleIds /\ x.tagId \in TagIds
    /\ \A x \in newsletters : x.userId = Null \/ x.userId \in UserIds

\* the steps that are a Create with a missing required relation target; Fails(clash)
\* says how such a step must end, given whether the row collides on a unique key
MissingTargetCreates(Fails(_)) ==
    /\ last'.op = "CreateSession" =>
        \A sid \in SessionIds, u \in UserRefs :
            (u \notin UserIds /\ CreateSessionOp(sid, u)) => Fails(SessionClash(sid))
    /\ last'.op = "CreateArticle" =>
        \A sl \in Slugs, u \in UserRefs, c \in CategoryRefs :
            (ArticleFkMissing(u, c) /\ CreateArticleOp(sl, u, c, <<>>, Null))
                => Fails(ArticleClash(sl))
    /\ last'.op = "CreateArticleTag" =>
        \A a \in ArticleRefs, t \in TagRefs :
            ((a \notin ArticleIds \/ t \notin TagIds) /\ CreateArticleTagOp(a, t))
                => Fails(ArticleTagClash(a, t))
    /\ last'.op = "CreateSavedArticle" =>
        \A u \in UserRefs, a \in ArticleRefs :
            ((u \notin UserIds \/ a \notin ArticleIds) /\ CreateSavedArticleOp(u, a))
                => Fails(SavedArticleClash(u, a))
    /\ last'.op = "CreateComment" =>
        \A u \in UserRefs, a \in ArticleRefs :
            ((u \notin UserIds \/ a \notin ArticleIds) /\ CreateCommentOp(u, a))
                => Fails(FALSE)
    /\ last'.op = "CreateEventRsvp" =>
        \A u \in UserRefs, e \in EventRefs :
            ((u \notin UserIds \/ e \notin EventIds) /\ CreateEventRsvpOp(u, e, <<>>))
                => Fails(EventRsvpClash(u, e))
    /\ last'.op = "CreateMembershipSubscription" =>
        \A u \in UserRefs :
            (u \notin UserIds /\ CreateMembershipSubscriptionOp(u, NullStr, NullStr))
                => Fails(MembershipClash(u, NullStr, NullStr))

FailsWithForeignKeyViolation(clash) ==
    last'.res = ForeignKeyViolation /\ UNCHANGED store

FailsByFirstBrokenConstraint(clash) ==
    /\ last'.res = IF clash THEN UniqueConstraintViolation ELSE ForeignKeyViolation
    /\ UNCHANGED store

\* C8 as stated: every foreign key names an existing row in every reachable
\* state, and a Create whose required relation target does not exist fails
\* with ForeignKeyViolation and changes nothing.
C8_Original ==
    /\ []ReferentialIntegrity
    /\ [][MissingTargetCreates(FailsWithForeignKeyViolation)]_vars

\* C8: every foreign key names an existing row in every reachable state, and
\* a Create whose required relation target does not exist fails and changes
\* nothing: with UniqueConstraintViolation when the row also collides on a
\* unique key, with ForeignKeyViolation otherwise.
C8_ReferentialIntegrity ==
    /\ []ReferentialIntegrity
    /\ [][MissingTargetCreates(FailsByFirstBrokenConstraint)]_vars

\* a comment for a user or an article that does not exist was refused, in a
\* store that holds a comment and an article of another author
C8_Witness ==
    /\ last.op = "CreateComment" /\ last.res = ForeignKeyViolation
    /\ \E c \in comments, a \in articles : a.authorId # c.userId

====
